---- MODULE Spec2Model ----
(***************************************************************************)
(* geotiles: raster ingestion and overlay lifecycle.                       *)
(*                                                                         *)
(* Index.handleFileSelected  (src/src/utils/proj4Utils.ts 47-84)           *)
(* ProcessingService         (src/src/services/ProcessingService.ts)       *)
(* FileUploader              (src/src/components/FileUploader.tsx)         *)
(* MapViewer.processGeoTiff  (src/src/components/MapViewer.tsx 92-183)     *)
(*                                                                         *)
(* One JavaScript thread: every action below is the code that runs between *)
(* two suspension points (await of a timer, a FileReader, a dynamic import *)
(* or the georaster decoder).  React state setters of one continuation are *)
(* committed together with the effects they trigger.                       *)
(***************************************************************************)
EXTENDS Integers, Sequences, FiniteSets, TLC

\* ------------------------------------------------------------------ bounds
\* number of files offered to the uploader in one behaviour
MaxSubmits == 3
\* raster widths and heights range over -1 .. MaxDim
MaxDim == 2
\* number of files offered to the uploader in one behaviour of SpecCrs
MaxCrsSubmits == 2
\* number of initializeProj4 calls in one behaviour of SpecCrs
MaxInitCalls == 2
\* number of files offered to the uploader in one behaviour of SpecTeardown
MaxTeardownSubmits == 2
\* number of files offered to the uploader in one behaviour of SpecLive
MaxLiveSubmits == 2
\* file names of SpecGate have at most MaxNameLen characters
MaxNameLen == 5

\* ------------------------------------------------------------ result values
\* a reference that is null / a field that is undefined
Null == 0

MissingGeorefError == "Missing georeferencing information in GeoTIFF"
InvalidDimsError == "Invalid raster dimensions"
ParseFailureError == "Validation error: <parse failure>"
ReadError == "Error reading file"
DefaultInvalidError == "Invalid GeoTIFF format or missing georeferencing information"
LayerMissingGeorefError == "Missing georeferencing information"
\* error: undefined
NoError == ""

\* ------------------------------------------------------------------- files
\* What a File yields when read and parsed: whether FileReader succeeds,
\* whether geotiff's fromArrayBuffer/getImage succeed, which georeferencing
\* tags the file directory holds, and the image width and height.
Dims == (0 - 1) .. MaxDim

FileDomain ==
    [readOk : BOOLEAN, parseOk : BOOLEAN, GeoKeyDirectory : BOOLEAN,
     ModelTiepoint : BOOLEAN, ModelPixelScale : BOOLEAN,
     width : Dims, height : Dims]

\* File.name: a sequence of characters
NameChars == {".", "t", "T", "i", "I", "f", "F", "x"}

Names == UNION {[1 .. n -> NameChars] : n \in 0 .. MaxNameLen}

\* representative files for the lifecycle: a georeferenced raster, a file
\* whose bytes are not a TIFF container, and a file that is not named as a TIFF
GoodFile ==
    [name |-> <<"x", ".", "t", "i", "f">>,
     readOk |-> TRUE, parseOk |-> TRUE, GeoKeyDirectory |-> TRUE,
     ModelTiepoint |-> TRUE, ModelPixelScale |-> TRUE, width |-> 2, height |-> 2]

CorruptFile ==
    [name |-> <<"x", ".", "T", "I", "F", "F">>,
     readOk |-> TRUE, parseOk |-> FALSE, GeoKeyDirectory |-> FALSE,
     ModelTiepoint |-> FALSE, ModelPixelScale |-> FALSE, width |-> 0, height |-> 0]

TextFile == [GoodFile EXCEPT !.name = <<"x", ".", "t", "x", "t">>]

SubmitFiles == {GoodFile, CorruptFile, TextFile}

\* --------------------------------------------------------------- variables
VARIABLES
    isProcessing,       \* Index: useState(false)
    activeTab,          \* Index: useState('upload')
    geoTiffData,        \* Index: useState(null); a buffer is named by its request
    reqs,               \* handleFileSelected invocations, in arrival order
    mapRef,             \* MapViewer: mapRef.current is a live map
    mapLayers,          \* GeoRaster layers the map holds (layer k is built by run k)
    geoRasterLayerRef,  \* MapViewer: geoRasterLayerRef.current (Null or a layer)
    runs,               \* processGeoTiff invocations, in start order
    fitted,             \* layer whose bounds the last fitBounds call was given
    windowProj4,        \* window.proj4
    proj4Defs,          \* proj4's definition table: the entries, in insertion order
    initCalls,          \* number of initializeProj4 calls made so far
    pageMounted,        \* the Index page, and MapViewer with it, has not been unmounted
    vfile,              \* validation harness: the file given to processGeoTIFF
    vverdict,           \* validation harness: what validateGeoTIFF returned
    vresult,            \* validation harness: what processGeoTIFF resolved to
    vtoast,             \* validation harness: description of the toast shown
    offer               \* extension gate: the name of the file offered, and whether
                        \* FileUploader has handled it

appVars == <<isProcessing, activeTab, geoTiffData, reqs, mapRef, mapLayers,
             geoRasterLayerRef, runs, fitted, windowProj4, proj4Defs, initCalls,
                       pageMounted>>
harnessVars == <<vfile, vverdict, vresult, vtoast, offer>>
vars == <<isProcessing, activeTab, geoTiffData, reqs, mapRef, mapLayers,
          geoRasterLayerRef, runs, fitted, windowProj4, proj4Defs,
          initCalls, pageMounted, vfile, vverdict, vresult, vtoast, offer>>

\* ------------------------------------------------------- ProcessingService

\* the earlier validator (src/unnamed/part_001 61-91): a geo-key directory is
\* required, the tie-point / pixel-scale convention is not accepted
validateGeoTIFF_geoKeysOnly(f) ==
    IF ~f.parseOk THEN [valid |-> FALSE, error |-> ParseFailureError]
    ELSE IF ~f.GeoKeyDirectory
         THEN [valid |-> FALSE, error |-> MissingGeorefError]
    ELSE IF f.width <= 0 \/ f.height <= 0
         THEN [valid |-> FALSE, error |-> InvalidDimsError]
    ELSE [valid |-> TRUE, error |-> NoError]

\* a validator that returns before it looks at the dimensions
validateGeoTIFF_noDimensionCheck(f) ==
    IF ~f.parseOk THEN [valid |-> FALSE, error |-> ParseFailureError]
    ELSE IF ~f.GeoKeyDirectory /\ ~f.ModelTiepoint /\ ~f.ModelPixelScale
         THEN [valid |-> FALSE, error |-> MissingGeorefError]
    ELSE [valid |-> TRUE, error |-> NoError]

\* a validator whose georeferencing test never rejects
validateGeoTIFF_noGeorefCheck(f) ==
    IF ~f.parseOk THEN [valid |-> FALSE, error |-> ParseFailureError]
    ELSE IF f.width <= 0 \/ f.height <= 0
         THEN [valid |-> FALSE, error |-> InvalidDimsError]
    ELSE [valid |-> TRUE, error |-> NoError]

\* ProcessingService.validateGeoTIFF
validateGeoTIFF(f) ==
    IF ~f.parseOk
    THEN \* fromArrayBuffer / getImage throws: catch
         [valid |-> FALSE, error |-> ParseFailureError]
    ELSE IF ~f.GeoKeyDirectory /\ (~f.ModelTiepoint /\ ~f.ModelPixelScale)
         THEN [valid |-> FALSE, error |-> MissingGeorefError]
    ELSE IF f.width <= 0 \/ f.height <= 0
         THEN [valid |-> FALSE, error |-> InvalidDimsError]
    ELSE [valid |-> TRUE, error |-> NoError]

\* processGeoTIFF that hands the buffer on whatever the validator said
processGeoTIFF_ignoresVerdict(f, buf) ==
    IF ~f.readOk
    THEN [success |-> FALSE, data |-> Null, error |-> ReadError]
    ELSE [success |-> TRUE, data |-> buf, error |-> NoError]

\* processGeoTIFF that reports every invalid verdict with its generic message
processGeoTIFF_genericError(f, buf) ==
    IF ~f.readOk
    THEN [success |-> FALSE, data |-> Null, error |-> ReadError]
    ELSE IF ~validateGeoTIFF(f).valid
         THEN [success |-> FALSE, data |-> Null, error |-> DefaultInvalidError]
    ELSE [success |-> TRUE, data |-> buf, error |-> NoError]

\* processGeoTIFF whose invalid-verdict return still carries the buffer
processGeoTIFF_failureKeepsData(f, buf) ==
    IF ~f.readOk
    THEN [success |-> FALSE, data |-> Null, error |-> ReadError]
    ELSE IF ~validateGeoTIFF(f).valid
         THEN [success |-> FALSE, data |-> buf, error |-> validateGeoTIFF(f).error]
    ELSE [success |-> TRUE, data |-> buf, error |-> NoError]

\* ProcessingService.processGeoTIFF; buf names the ArrayBuffer the read yields
processGeoTIFF(f, buf) ==
    IF ~f.readOk
    THEN \* readFileAsArrayBuffer rejects: catch
         [success |-> FALSE, data |-> Null, error |-> ReadError]
    ELSE LET validationResult == validateGeoTIFF(f) IN
         IF ~validationResult.valid
         THEN [success |-> FALSE, data |-> Null,
               error |-> IF validationResult.error = NoError
                         THEN DefaultInvalidError
                         ELSE validationResult.error]
         ELSE [success |-> TRUE, data |-> buf, error |-> NoError]

NoResult == [success |-> FALSE, data |-> Null, error |-> NoError]

\* Index.handleFileSelected: the description of the toast shown for a result
SuccessToast == "Your GeoTIFF has been successfully processed."
UnknownErrorToast == "An unknown error occurred."

toastDescription(result) ==
    IF result.success /\ result.data # Null THEN SuccessToast
    ELSE IF result.error = NoError THEN UnknownErrorToast
    ELSE result.error


\* --------------------------------------------------------------- window.proj4
\* What window.proj4 can be: the proj4 import; a function that delegates to
\* the import and carries its defs ("wrapper"); such a function around
\* another delegating function ("nestedWrapper") or around a value that is
\* not the registry ("wrapperOfBroken"); or what unrelated code left there:
\* nothing, a value that is not callable, a function that has no defs property.
Proj4Hosts ==
    {"proj4", "wrapper", "nestedWrapper", "wrapperOfBroken",
     "undefined", "object", "functionWithoutDefs"}

\* typeof window.proj4 === 'function'
IsFunction(wp) ==
    wp \in {"proj4", "wrapper", "nestedWrapper", "wrapperOfBroken",
            "functionWithoutDefs"}

\* typeof window.proj4.defs === 'function'
HasDefs(wp) == wp \in {"proj4", "wrapper", "nestedWrapper"}

\* function(...args) { return original(...args) } with defs = original.defs
wrap(original) ==
    CASE original = "proj4" -> "wrapper"
      [] original \in {"wrapper", "nestedWrapper"} -> "nestedWrapper"
      [] OTHER -> "wrapperOfBroken"

\* the codes of the proj4.defs([...]) call
CrsCodes == {"EPSG:4326", "EPSG:3857", "EPSG:32633", "EPSG:3785"}

\* the argument of the proj4.defs([...]) call; a projection string is named
\* by its distinguishing parameters
CrsDefinitions ==
    << [code |-> "EPSG:4326", def |-> "+proj=longlat +datum=WGS84"],
       [code |-> "EPSG:3857", def |-> "+proj=merc +k=1 +wktext"],
       [code |-> "EPSG:32633", def |-> "+proj=utm +zone=33"],
       [code |-> "EPSG:3785", def |-> "+proj=merc +k=1.0"] >>

\* a registration that adds every entry to the table without looking for its code
defsArray_append(table, entries) ==
    table \o entries

\* proj4.defs(name, def): the table is keyed by name, so an entry of the same
\* name is overwritten in place and a new name is added
defs(table, entry) ==
    IF \E i \in DOMAIN table : table[i].code = entry.code
    THEN [i \in DOMAIN table |->
             IF table[i].code = entry.code THEN entry ELSE table[i]]
    ELSE Append(table, entry)

\* proj4.defs([...]): each element of the array is registered in turn
RECURSIVE defsArray(_, _)
defsArray(table, entries) ==
    IF entries = <<>> THEN table
    ELSE defsArray(defs(table, Head(entries)), Tail(entries))

\* initializeProj4 that wraps whatever window.proj4 holds when it is called
initializeProj4_wrapsCurrent ==
    LET originalProj4 == windowProj4
    IN  /\ proj4Defs' = defsArray(proj4Defs, CrsDefinitions)
        /\ windowProj4' = wrap(originalProj4)

\* proj4Utils.initializeProj4: window.proj4 = proj4, the four definitions,
\* then window.proj4 becomes a function that delegates to originalProj4, the
\* value window.proj4 has at that point, and carries its defs
initializeProj4 ==
    LET assigned == "proj4"
        originalProj4 == assigned
    IN  /\ proj4Defs' = defsArray(proj4Defs, CrsDefinitions)
        /\ windowProj4' = wrap(originalProj4)

\* the earlier processGeoTiff (MapViewer.tsx 581-630), which goes from the
\* removal of the previous layer straight to the imports
ensureProj4_noStep(wp) == wp

\* MapViewer.processGeoTiff, "Ensure proj4 is properly initialized": the new
\* value of window.proj4.  The inner test of window.proj4.defs reads the proj4
\* import just assigned, which has defs, so its branch registers nothing.
ensureProj4(wp) ==
    IF ~IsFunction(wp) THEN "proj4" ELSE wp

\* ------------------------------------------------------------------- Index
\* <MapViewer> is rendered unless (!geoTiffData && !isProcessing)
MapViewerShown(isP, data) == ~(data = Null /\ ~isP)

InFlight == {i \in DOMAIN reqs : reqs[i].pc # "done"}

RunsInFlight == {k \in DOMAIN runs : runs[k].pc \in {"parse", "decode"}}

RunsDone == DOMAIN runs \ RunsInFlight

\* handleFileSelected up to its first await (the 1500 ms timer), and the render
\* that follows: isProcessing mounts MapViewer, whose first effect creates the map
handleFileSelected(f) ==
    /\ Len(reqs) < MaxSubmits
    /\ reqs' = Append(reqs, [file |-> f, pc |-> "timer", result |-> NoResult])
    /\ isProcessing' = TRUE
    /\ activeTab' = "processing"
    /\ mapRef' = TRUE
    /\ UNCHANGED <<geoTiffData, mapLayers, geoRasterLayerRef, runs, fitted,
                   windowProj4, proj4Defs, initCalls,
                       pageMounted>>

\* String.prototype.toLowerCase over NameChars
toLowerCaseChar(c) ==
    CASE c = "T" -> "t"
      [] c = "I" -> "i"
      [] c = "F" -> "f"
      [] OTHER -> c

toLowerCase(str) == [k \in DOMAIN str |-> toLowerCaseChar(str[k])]

\* String.prototype.endsWith
endsWith(str, suffix) ==
    /\ Len(str) >= Len(suffix)
    /\ SubSeq(str, Len(str) - Len(suffix) + 1, Len(str)) = suffix

DotTif == <<".", "t", "i", "f">>
DotTiff == <<".", "t", "i", "f", "f">>

\* a gate that compares the name as it is spelled
validateAndProcessFile_caseSensitive(f) ==
    IF ~endsWith(f.name, DotTif) /\ ~endsWith(f.name, DotTiff)
    THEN UNCHANGED appVars
    ELSE handleFileSelected(f)

\* FileUploader.validateAndProcessFile
validateAndProcessFile(f) ==
    IF /\ ~endsWith(toLowerCase(f.name), DotTif)
       /\ ~endsWith(toLowerCase(f.name), DotTiff)
    THEN \* toast "Invalid file format"; return
         UNCHANGED appVars
    ELSE \* onFileSelected(file)
         handleFileSelected(f)

\* FileUploader.handleFileChange: the file input and its button are disabled
\* while isProcessing; FileUploader is the content of the 'upload' tab
handleFileChange ==
    /\ pageMounted
    /\ activeTab = "upload"
    /\ ~isProcessing
    /\ \E f \in SubmitFiles : validateAndProcessFile(f)
    /\ UNCHANGED harnessVars

\* FileUploader.handleDrop: the drop area does not look at isProcessing
handleDrop ==
    /\ pageMounted
    /\ activeTab = "upload"
    /\ \E f \in SubmitFiles : validateAndProcessFile(f)
    /\ UNCHANGED harnessVars

\* tabs whose 'processing' trigger is never disabled
ClickTab_processingEnabled ==
    /\ pageMounted
    /\ \E t \in {"upload", "processing", "result"} :
          /\ t # activeTab
          /\ t = "result" => geoTiffData # Null
          /\ activeTab' = t
    /\ UNCHANGED <<isProcessing, geoTiffData, reqs, mapRef, mapLayers,
                   geoRasterLayerRef, runs, fitted, windowProj4, proj4Defs,
                   initCalls, pageMounted>>
    /\ UNCHANGED harnessVars

\* Tabs onValueChange={setActiveTab}; 'processing' is disabled unless
\* isProcessing, 'result' unless geoTiffData
ClickTab ==
    /\ pageMounted
    /\ \E t \in {"upload", "processing", "result"} :
          /\ t # activeTab
          /\ t = "processing" => isProcessing
          /\ t = "result" => geoTiffData # Null
          /\ activeTab' = t
    /\ UNCHANGED <<isProcessing, geoTiffData, reqs, mapRef, mapLayers,
                   geoRasterLayerRef, runs, fitted, windowProj4, proj4Defs, initCalls,
                       pageMounted>>
    /\ UNCHANGED harnessVars

\* the 1500 ms timer of request i fires: processGeoTIFF starts reading the
\* file.  Timers of equal delay fire in the order they were set.
TimerFires ==
    \E i \in DOMAIN reqs :
        /\ reqs[i].pc = "timer"
        /\ \A h \in DOMAIN reqs : h < i => reqs[h].pc # "timer"
        /\ reqs' = [reqs EXCEPT ![i].pc = "read"]
        /\ UNCHANGED <<isProcessing, activeTab, geoTiffData, mapRef, mapLayers,
                       geoRasterLayerRef, runs, fitted, windowProj4, proj4Defs, initCalls,
                       pageMounted>>
        /\ UNCHANGED harnessVars

\* MapViewer.processGeoTiff up to its first await, run by the [geoTiffData]
\* effect for the buffer buf.  A MapViewer that was not mounted is mounted
\* first (new refs, new empty map).
processGeoTiffStart(buf) ==
    LET ref0 == IF mapRef THEN geoRasterLayerRef ELSE Null
        layers0 == IF mapRef THEN mapLayers ELSE {}
        remove == ref0 # Null /\ ref0 \in layers0
    IN  /\ mapRef' = TRUE
        /\ mapLayers' = IF remove THEN layers0 \ {ref0} ELSE layers0
        /\ geoRasterLayerRef' = IF remove THEN Null ELSE ref0
        /\ windowProj4' = ensureProj4(windowProj4)
        /\ runs' = Append(runs, [data |-> buf, pc |-> "parse",
                                 before |-> layers0,
                                 crsOk |-> HasDefs(ensureProj4(windowProj4))])
        /\ UNCHANGED <<fitted, proj4Defs, initCalls,
                       pageMounted>>

\* handleFileSelected setting geoTiffData on a result that is not a success
handleFileSelected_storesFailedResult(i, result) ==
    /\ reqs' = [reqs EXCEPT ![i].pc = "done", ![i].result = result]
    /\ isProcessing' = FALSE
    /\ geoTiffData' = i
    /\ activeTab' = "result"
    /\ processGeoTiffStart(i)

\* handleFileSelected with setIsProcessing(false) on the success path only,
\* not in a finally block
handleFileSelectedSettle_noFinally(i, result) ==
    /\ reqs' = [reqs EXCEPT ![i].pc = "done", ![i].result = result]
    /\ IF result.success /\ result.data # Null
       THEN /\ isProcessing' = FALSE
            /\ geoTiffData' = result.data
            /\ activeTab' = "result"
            /\ processGeoTiffStart(result.data)
       ELSE /\ activeTab' = "upload"
            /\ UNCHANGED <<isProcessing, geoTiffData, runs, fitted, windowProj4,
                           proj4Defs, initCalls, pageMounted, mapRef,
                           mapLayers, geoRasterLayerRef>>

\* handleFileSelected after await ProcessingService.processGeoTIFF(file),
\* its finally block, and the render that follows
handleFileSelectedSettle(i, result) ==
    /\ reqs' = [reqs EXCEPT ![i].pc = "done", ![i].result = result]
    /\ IF ~pageMounted
       THEN \* the state setters of an unmounted component do nothing
            UNCHANGED <<isProcessing, activeTab, geoTiffData, mapRef, mapLayers,
                        geoRasterLayerRef, runs, fitted, windowProj4, proj4Defs,
                        initCalls, pageMounted>>
       ELSE /\ isProcessing' = FALSE
            /\ IF result.success /\ result.data # Null
               THEN /\ geoTiffData' = result.data
                    /\ activeTab' = "result"
                    /\ processGeoTiffStart(result.data)
               ELSE /\ activeTab' = "upload"
                    /\ UNCHANGED <<geoTiffData, runs, fitted, windowProj4,
                                   proj4Defs, initCalls, pageMounted>>
                    /\ IF MapViewerShown(FALSE, geoTiffData)
                       THEN UNCHANGED <<mapRef, mapLayers, geoRasterLayerRef>>
                       ELSE \* MapViewer unmounts: mapRef.current.remove()
                            /\ mapRef' = FALSE
                            /\ mapLayers' = {}
                            /\ geoRasterLayerRef' = Null

\* the FileReader of request i settles.  processGeoTIFF's remaining awaits
\* (fromArrayBuffer and getImage over the in-memory buffer) settle as promise
\* jobs of the same task, so processGeoTIFF resolves and handleFileSelected
\* continues before any other timer, reader or user event is handled.
ReadSettles ==
    \E i \in DOMAIN reqs :
        /\ reqs[i].pc = "read"
        /\ handleFileSelectedSettle(i, processGeoTIFF(reqs[i].file, i))
        /\ UNCHANGED harnessVars

\* ---------------------------------------------------------------- MapViewer
\* run k ends, attached or in its catch block
RunEnds(k, how) ==
    runs' = [runs EXCEPT ![k].pc = how]

\* an overlay stage that takes only a geo-key directory as georeferencing
missingGeoreferencing_geoKeysOnly(fd) ==
    ~fd.GeoKeyDirectory

\* processGeoTiff's test of the file directory, which throws
\* "Missing georeferencing information"
missingGeoreferencing(fd) ==
    ~fd.GeoKeyDirectory /\ ~fd.ModelTiepoint /\ ~fd.ModelPixelScale

\* run k: import('geotiff'), fromArrayBuffer and getImage settle, then the
\* georeferencing test of the file directory; a run that the test stops ends
\* "rejected"
ParseSettles ==
    \E k \in DOMAIN runs :
        /\ runs[k].pc = "parse"
        /\ \E ok \in BOOLEAN :
              LET fd == reqs[runs[k].data].file IN
              IF ~ok THEN RunEnds(k, "failed")
              ELSE IF missingGeoreferencing(fd) THEN RunEnds(k, "rejected")
              ELSE runs' = [runs EXCEPT ![k].pc = "decode"]
        /\ UNCHANGED <<isProcessing, activeTab, geoTiffData, reqs, mapRef, mapLayers,
                       geoRasterLayerRef, fitted, windowProj4, proj4Defs, initCalls,
                       pageMounted>>
        /\ UNCHANGED harnessVars

\* a last step that adds the layer although the map has been removed
DecodeSettles_addsAfterTeardown ==
    \E k \in DOMAIN runs :
        /\ runs[k].pc = "decode"
        /\ \E outcome \in {"ok", "decodeThrows", "constructThrows", "fitBoundsThrows"} :
              IF outcome \in {"decodeThrows", "constructThrows"}
              THEN /\ RunEnds(k, "failed")
                   /\ UNCHANGED <<mapLayers, geoRasterLayerRef, fitted>>
              ELSE /\ mapLayers' = mapLayers \cup {k}
                   /\ geoRasterLayerRef' = k
                   /\ IF outcome = "ok"
                      THEN fitted' = k /\ RunEnds(k, "attached")
                      ELSE UNCHANGED fitted /\ RunEnds(k, "failed")
        /\ UNCHANGED <<isProcessing, activeTab, geoTiffData, reqs, mapRef,
                       windowProj4, proj4Defs, initCalls, pageMounted>>
        /\ UNCHANGED harnessVars

\* a last step that adds the layer to the map and fits the view but does not
\* record the layer in geoRasterLayerRef
DecodeSettles_refNotRecorded ==
    \E k \in DOMAIN runs :
        /\ runs[k].pc = "decode"
        /\ \E outcome \in {"ok", "decodeThrows", "constructThrows", "fitBoundsThrows"} :
              IF outcome \in {"decodeThrows", "constructThrows"} \/ ~mapRef
              THEN /\ RunEnds(k, "failed")
                   /\ UNCHANGED <<mapLayers, geoRasterLayerRef, fitted>>
              ELSE /\ mapLayers' = mapLayers \cup {k}
                   /\ UNCHANGED geoRasterLayerRef
                   /\ IF outcome = "ok"
                      THEN fitted' = k /\ RunEnds(k, "attached")
                      ELSE UNCHANGED fitted /\ RunEnds(k, "failed")
        /\ UNCHANGED <<isProcessing, activeTab, geoTiffData, reqs, mapRef,
                       windowProj4, proj4Defs, initCalls,
                       pageMounted>>
        /\ UNCHANGED harnessVars

\* run k: the georaster imports and decode settle, then the layer is built,
\* added to the map, recorded and fitted
DecodeSettles ==
    \E k \in DOMAIN runs :
        /\ runs[k].pc = "decode"
        /\ \E outcome \in {"ok", "decodeThrows", "constructThrows", "fitBoundsThrows"} :
              IF outcome \in {"decodeThrows", "constructThrows"} \/ ~mapRef
              THEN \* catch; layer.addTo(null) throws as well
                   /\ RunEnds(k, "failed")
                   /\ UNCHANGED <<mapLayers, geoRasterLayerRef, fitted>>
              ELSE /\ mapLayers' = mapLayers \cup {k}
                   /\ geoRasterLayerRef' = k
                   /\ IF outcome = "ok"
                      THEN fitted' = k /\ RunEnds(k, "attached")
                      ELSE UNCHANGED fitted /\ RunEnds(k, "failed")
        /\ UNCHANGED <<isProcessing, activeTab, geoTiffData, reqs, mapRef,
                       windowProj4, proj4Defs, initCalls,
                       pageMounted>>
        /\ UNCHANGED harnessVars

\* ------------------------------------------------------------ specification
InitApp ==
    /\ isProcessing = FALSE
    /\ activeTab = "upload"
    /\ geoTiffData = Null
    /\ reqs = <<>>
    /\ mapRef = FALSE
    /\ mapLayers = {}
    /\ geoRasterLayerRef = Null
    /\ runs = <<>>
    /\ fitted = Null
    /\ windowProj4 = "proj4"
    /\ proj4Defs = defsArray(<<>>, CrsDefinitions)
    /\ initCalls = 0
    /\ pageMounted = TRUE

NotCalled == [valid |-> FALSE, error |-> "<not called>"]
Pending == [success |-> FALSE, data |-> Null, error |-> "<pending>"]
NoToast == "<no toast>"
NoOffer == [name |-> <<>>, handled |-> TRUE]

Init ==
    /\ InitApp
    /\ vfile = GoodFile
    /\ vverdict = NotCalled
    /\ vresult = Pending
    /\ vtoast = NoToast
    /\ offer = NoOffer

Next ==
    \/ handleFileChange
    \/ handleDrop
    \/ ClickTab
    \/ TimerFires
    \/ ReadSettles
    \/ ParseSettles
    \/ DecodeSettles

Spec == Init /\ [][Next]_vars

\* Every timer that was set fires and every file read that was started
\* settles, with a result or with an error.
LiveFileChange == Len(reqs) < MaxLiveSubmits /\ handleFileChange

LiveDrop == Len(reqs) < MaxLiveSubmits /\ handleDrop

NextLive ==
    \/ LiveFileChange
    \/ LiveDrop
    \/ ClickTab
    \/ TimerFires
    \/ ReadSettles
    \/ ParseSettles
    \/ DecodeSettles

SpecLive ==
    /\ Init
    /\ [][NextLive]_vars
    /\ WF_vars(TimerFires)
    /\ WF_vars(ReadSettles)

\* ------------------------------------------------------- validation harness
\* handleFileSelected's use of processGeoTIFF and of its result's toast,
\* applied to one file drawn from FileDomain
InitValidate ==
    /\ InitApp
    /\ vfile \in FileDomain
    /\ vverdict = NotCalled
    /\ vresult = Pending
    /\ vtoast = NoToast
    /\ offer = NoOffer

ProcessFile ==
    /\ vresult = Pending
    /\ vverdict' = IF vfile.readOk THEN validateGeoTIFF(vfile) ELSE NotCalled
    /\ vresult' = processGeoTIFF(vfile, 1)
    /\ vtoast' = toastDescription(processGeoTIFF(vfile, 1))
    /\ UNCHANGED <<vfile, offer>>
    /\ UNCHANGED appVars

NextValidate == ProcessFile

SpecValidate == InitValidate /\ [][NextValidate]_vars

\* --------------------------------------------------------------- ingestion
\* One file, of any content in FileDomain and with a TIFF name, is selected
\* and goes through handleFileSelected and, when accepted, processGeoTiff.
InitIngest ==
    /\ InitApp
    /\ vfile \in FileDomain
    /\ vverdict = NotCalled
    /\ vresult = Pending
    /\ vtoast = NoToast
    /\ offer = NoOffer

IngestFileChange ==
    /\ Len(reqs) = 0
    /\ pageMounted
    /\ activeTab = "upload"
    /\ ~isProcessing
    /\ validateAndProcessFile(("name" :> GoodFile.name) @@ vfile)
    /\ UNCHANGED harnessVars

NextIngest ==
    \/ IngestFileChange
    \/ ClickTab
    \/ TimerFires
    \/ ReadSettles
    \/ ParseSettles
    \/ DecodeSettles

SpecIngest == InitIngest /\ [][NextIngest]_vars

\* ---------------------------------------------------------------- teardown
\* The Index page is unmounted (the user leaves the route): MapViewer's map
\* effect cleanup runs mapRef.current.remove(), which takes every layer off
\* the map, and sets mapRef.current to null.  Timers, reads and processGeoTiff
\* runs that were started go on.
Unmount ==
    /\ pageMounted
    /\ pageMounted' = FALSE
    /\ mapRef' = FALSE
    /\ mapLayers' = {}
    /\ UNCHANGED <<isProcessing, activeTab, geoTiffData, reqs, geoRasterLayerRef,
                   runs, fitted, windowProj4, proj4Defs, initCalls>>
    /\ UNCHANGED harnessVars

TeardownFileChange == Len(reqs) < MaxTeardownSubmits /\ handleFileChange

TeardownDrop == Len(reqs) < MaxTeardownSubmits /\ handleDrop

NextTeardown ==
    \/ TeardownFileChange
    \/ TeardownDrop
    \/ ClickTab
    \/ TimerFires
    \/ ReadSettles
    \/ ParseSettles
    \/ DecodeSettles
    \/ Unmount

SpecTeardown == Init /\ [][NextTeardown]_vars

\* ------------------------------------------------------------ CRS registry
\* The lifecycle together with what else touches window.proj4 and proj4's
\* definition table: callers of initializeProj4 and unrelated code that
\* replaces window.proj4 (it is declared on Window as `proj4: any`).

\* unrelated code replaces window.proj4
Clobber ==
    /\ \E wp \in {"undefined", "object", "functionWithoutDefs"} :
          /\ wp # windowProj4
          /\ windowProj4' = wp
    /\ UNCHANGED <<isProcessing, activeTab, geoTiffData, reqs, mapRef, mapLayers,
                   geoRasterLayerRef, runs, fitted, proj4Defs, initCalls,
                       pageMounted>>
    /\ UNCHANGED harnessVars

\* initializeProj4() is called: by MapContainer's mount effect before it
\* creates its map, by GeoTiffLayer.processGeoTiff before its first await
initializeProj4Call ==
    /\ initCalls < MaxInitCalls
    /\ initializeProj4
    /\ initCalls' = initCalls + 1
    /\ UNCHANGED <<isProcessing, activeTab, geoTiffData, reqs, mapRef, mapLayers,
                   geoRasterLayerRef, runs, fitted, pageMounted>>
    /\ UNCHANGED harnessVars

CrsFileChange == Len(reqs) < MaxCrsSubmits /\ handleFileChange

CrsDrop == Len(reqs) < MaxCrsSubmits /\ handleDrop

NextCrs ==
    \/ CrsFileChange
    \/ CrsDrop
    \/ ClickTab
    \/ TimerFires
    \/ ReadSettles
    \/ ParseSettles
    \/ DecodeSettles
    \/ Clobber
    \/ initializeProj4Call

SpecCrs == Init /\ [][NextCrs]_vars

\* ---------------------------------------------------------- extension gate
\* FileUploader is offered one file, of any name in Names
InitGate ==
    /\ InitApp
    /\ vfile = GoodFile
    /\ vverdict = NotCalled
    /\ vresult = Pending
    /\ vtoast = NoToast
    /\ \E n \in Names : offer = [name |-> n, handled |-> FALSE]

\* the file is chosen in the file dialog
GateFileChange ==
    /\ ~offer.handled
    /\ activeTab = "upload"
    /\ ~isProcessing
    /\ validateAndProcessFile([GoodFile EXCEPT !.name = offer.name])
    /\ offer' = [offer EXCEPT !.handled = TRUE]
    /\ UNCHANGED <<vfile, vverdict, vresult, vtoast>>

\* the file is dropped on the drop area
GateDrop ==
    /\ ~offer.handled
    /\ activeTab = "upload"
    /\ validateAndProcessFile([GoodFile EXCEPT !.name = offer.name])
    /\ offer' = [offer EXCEPT !.handled = TRUE]
    /\ UNCHANGED <<vfile, vverdict, vresult, vtoast>>

NextGate ==
    \/ GateFileChange
    \/ GateDrop

SpecGate == InitGate /\ [][NextGate]_vars


\* ------------------------------------------------------------------- claims
RunIsDone(r) == r.pc \in {"attached", "failed", "rejected"}

\* C1: the map never holds more than one GeoRaster overlay layer.
C1_AtMostOneOverlay == Cardinality(mapLayers) <= 1

\* C2: when run i started before the most recent run j and ends after j has
\* ended, then once both have ended the only overlay that can be on the map is
\* the one run j built.
C2_Supersession ==
    [][\A i \in DOMAIN runs : \A j \in DOMAIN runs :
          (/\ i < j
           /\ j = Len(runs)
           /\ RunIsDone(runs[j])
           /\ ~RunIsDone(runs[i])
           /\ RunIsDone(runs'[i]))
          => mapLayers' \subseteq {j}]_vars

\* C3: a run adds its layer to the map only while it is the most recent run:
\* once a newer run has started, an older run's layer is never added.
C3_SupersededNeverAttaches ==
    [][\A k \in DOMAIN runs :
          (k \notin mapLayers /\ k \in mapLayers') => k = Len(runs)]_vars

\* C4: when a run fails, the layers on the map are exactly the layers that
\* were on the map when the run's submission arrived.
C4_FailedReplacementRestores ==
    [][\A k \in DOMAIN runs :
          (~RunIsDone(runs[k]) /\ runs'[k].pc = "failed")
          => mapLayers' = runs[k].before]_vars

\* a file that is read but whose bytes fail the structural parse
ParseFailing(f) == f.readOk /\ ~f.parseOk

\* C5: no step of a handleFileSelected invocation whose file fails the
\* structural parse changes geoTiffData, the layers on the map, the layer
\* reference or the processGeoTiff runs, and the invocation ends with the
\* parse failure reported and the upload tab shown.
C5_ParseFailureLeavesSurface ==
    [][\A i \in DOMAIN reqs' :
          (/\ ParseFailing(reqs'[i].file)
           /\ (i \notin DOMAIN reqs \/ reqs'[i] # reqs[i]))
          => /\ geoTiffData' = geoTiffData
             /\ mapLayers' = mapLayers
             /\ geoRasterLayerRef' = geoRasterLayerRef
             /\ runs' = runs
             /\ reqs'[i].pc = "done"
                  => /\ reqs'[i].result =
                          [success |-> FALSE, data |-> Null,
                           error |-> ParseFailureError]
                     /\ activeTab' = "upload"]_vars

\* C5 witness: a parse-failing file was processed to its end after an earlier
\* file had been stored and its overlay attached.
C5_Witness ==
    \E i \in DOMAIN reqs :
        /\ ParseFailing(reqs[i].file)
        /\ reqs[i].pc = "done"
        /\ geoTiffData # Null
        /\ geoTiffData < i
        /\ \E k \in mapLayers : runs[k].data = geoTiffData

\* C6: at most one handleFileSelected invocation is between its start and the
\* end of its finally block.
C6_AtMostOneIngestion == Cardinality(InFlight) <= 1

\* C7: when the later-arrived of two successfully validated files is the most
\* recent arrival, then at the step that finishes the second of the two
\* invocations geoTiffData becomes the later-arrived file's buffer.
C7_LatestArrivalWins ==
    [][\A i \in DOMAIN reqs : \A j \in DOMAIN reqs :
          (/\ i < j
           /\ j = Len(reqs)
           /\ reqs[i].pc # "done" \/ reqs[j].pc # "done"
           /\ reqs'[i].pc = "done" /\ reqs'[i].result.success
           /\ reqs'[j].pc = "done" /\ reqs'[j].result.success)
          => geoTiffData' = j]_vars

\* the harness has applied processGeoTIFF, and validateGeoTIFF got a parsed image
Validated == vresult # Pending /\ vfile.readOk /\ vfile.parseOk

\* C8: a record with a geo-key directory and a non-positive width or height is
\* invalid with the reason "Invalid raster dimensions".
C8_ValidationPriority ==
    (/\ Validated
     /\ vfile.GeoKeyDirectory
     /\ (vfile.width <= 0 \/ vfile.height <= 0))
    => vverdict = [valid |-> FALSE, error |-> InvalidDimsError]

\* C8 witness: such a record, with only its height non-positive, was validated.
C8_Witness ==
    /\ Validated
    /\ vfile.GeoKeyDirectory
    /\ vfile.width > 0
    /\ vfile.height <= 0
    /\ ~vverdict.valid

\* C9: a record with positive width and height, no geo-key directory and both
\* a tie-point and a pixel-scale tag is valid.
C9_FallbackAcceptance ==
    (/\ Validated
     /\ vfile.width > 0 /\ vfile.height > 0
     /\ ~vfile.GeoKeyDirectory
     /\ vfile.ModelTiepoint /\ vfile.ModelPixelScale)
    => vverdict = [valid |-> TRUE, error |-> NoError]

\* C9 witness: such a record was validated and processGeoTIFF handed on its buffer.
C9_Witness ==
    /\ Validated
    /\ vfile.width > 0 /\ vfile.height > 0
    /\ ~vfile.GeoKeyDirectory
    /\ vfile.ModelTiepoint /\ vfile.ModelPixelScale
    /\ vresult.success

\* C10: a record with positive width and height and none of geo-key
\* directory, tie-point and pixel-scale is invalid with the reason
\* "Missing georeferencing information in GeoTIFF".
C10_Rejection ==
    (/\ Validated
     /\ vfile.width > 0 /\ vfile.height > 0
     /\ ~vfile.GeoKeyDirectory
     /\ ~vfile.ModelTiepoint /\ ~vfile.ModelPixelScale)
    => vverdict = [valid |-> FALSE, error |-> MissingGeorefError]

\* C10 witness: such a record was validated and processGeoTIFF reported the reason.
C10_Witness ==
    /\ Validated
    /\ vfile.width > 0 /\ vfile.height > 0
    /\ ~vfile.GeoKeyDirectory
    /\ ~vfile.ModelTiepoint /\ ~vfile.ModelPixelScale
    /\ vresult.error = MissingGeorefError

\* C11: validateGeoTIFF returns valid only for a record that has a geo-key
\* directory or both a tie-point and a pixel-scale tag; a record with no
\* geo-key directory and exactly one of the two tags is not valid.
C11_ValidOnlyIfGeoreferenced ==
    (Validated /\ vverdict.valid)
    => (vfile.GeoKeyDirectory \/ (vfile.ModelTiepoint /\ vfile.ModelPixelScale))

\* C12: a record whose width or height is not positive is invalid with the
\* reason "Invalid raster dimensions" for every combination of georeferencing
\* tags, the combination with no tag at all included.
C12_DegenerateDimensionsAlwaysReported ==
    (Validated /\ (vfile.width <= 0 \/ vfile.height <= 0))
    => vverdict = [valid |-> FALSE, error |-> InvalidDimsError]

\* the file was read and handleFileSelected has the result of processGeoTIFF
Processed == vresult # Pending /\ vfile.readOk

\* the three causes of an invalid verdict, as validateGeoTIFF meets them
ParseCause == ~vfile.parseOk
GeorefCause ==
    /\ vfile.parseOk
    /\ ~vfile.GeoKeyDirectory /\ ~vfile.ModelTiepoint /\ ~vfile.ModelPixelScale
DimsCause ==
    /\ vfile.parseOk
    /\ ~GeorefCause
    /\ (vfile.width <= 0 \/ vfile.height <= 0)

\* C13: the reason processGeoTIFF returns and the failure toast shows names the
\* cause of the failure: the parse-failure reason is reported exactly for a
\* parse failure, the missing-georeferencing reason exactly for a
\* missing-georeferencing verdict and the dimensions reason exactly for a
\* degenerate-dimensions verdict, so no two causes share a reason.
C13_FailureReasonsDistinct ==
    Processed =>
        /\ ParseCause <=> (vresult.error = ParseFailureError /\ vtoast = ParseFailureError)
        /\ GeorefCause <=> (vresult.error = MissingGeorefError /\ vtoast = MissingGeorefError)
        /\ DimsCause <=> (vresult.error = InvalidDimsError /\ vtoast = InvalidDimsError)
        /\ (vresult.error \in {ParseFailureError, MissingGeorefError, InvalidDimsError}
              <=> ~vresult.success)
        /\ (vtoast \in {ParseFailureError, MissingGeorefError, InvalidDimsError}
              <=> ~vresult.success)

\* C13 witness: a degenerate-dimensions verdict reached the failure toast.
C13_Witness ==
    /\ Processed
    /\ DimsCause
    /\ ~vresult.success
    /\ vtoast = InvalidDimsError

\* C14: whatever the read, the parse and the validation do, processGeoTIFF
\* resolves to a result that is either a success with data and no error or a
\* failure with an error and no data.
C14_ResultShape ==
    vresult # Pending =>
        \/ (vresult.success /\ vresult.data # Null /\ vresult.error = NoError)
        \/ (~vresult.success /\ vresult.data = Null /\ vresult.error # NoError)

\* C14 witness: the read failed and processGeoTIFF resolved to a failure that
\* carries the read error and no data.
C14_Witness ==
    /\ ~vfile.readOk
    /\ vresult = [success |-> FALSE, data |-> Null, error |-> ReadError]

\* the table as a set of code-to-definition entries
TableEntries(table) == {table[i] : i \in DOMAIN table}

\* C15: after initializeProj4 has been called one or more times, in any
\* interleaving with submissions, processGeoTiff runs, map mounts and
\* replacements of window.proj4, the definition table holds the entries one
\* call leaves: one entry for each of EPSG:4326, EPSG:3857, EPSG:32633 and
\* EPSG:3785, with the definition of the call, and no code twice.
C15_IdempotentRegistration ==
    initCalls >= 1 =>
        /\ TableEntries(proj4Defs) = TableEntries(defsArray(<<>>, CrsDefinitions))
        /\ {e.code : e \in TableEntries(proj4Defs)} = CrsCodes
        /\ Len(proj4Defs) = Cardinality(CrsCodes)
        /\ \A i \in DOMAIN proj4Defs : \A j \in DOMAIN proj4Defs :
              proj4Defs[i].code = proj4Defs[j].code => i = j

\* C15 witness: initializeProj4 was called a second time while a
\* processGeoTiff run was in flight.
C15_Witness ==
    /\ initCalls >= 2
    /\ RunsInFlight # {}
    /\ Len(proj4Defs) = 4

\* C16: whatever window.proj4 is when a processGeoTiff run starts, after the
\* run's CRS step window.proj4 is callable, has a defs function, and the four
\* definitions are registered.
C16_DetectAndRepair ==
    [][Len(runs') > Len(runs) =>
          /\ IsFunction(windowProj4')
          /\ HasDefs(windowProj4')
          /\ CrsCodes \subseteq {e.code : e \in TableEntries(proj4Defs')}]_vars

\* C17: a processGeoTiff run whose CRS step leaves window.proj4 without a
\* working defs does not go on to build an overlay: it is never attached and
\* its layer is never on the map.
C17_RegistryUnavailableEscalation ==
    \A k \in DOMAIN runs :
        ~runs[k].crsOk =>
            /\ runs[k].pc \notin {"decode", "attached"}
            /\ k \notin mapLayers

\* C18: when one valid raster has been submitted and nothing else, and its
\* processGeoTiff run has ended attached (no step failed), the map holds
\* exactly that run's overlay, geoRasterLayerRef is that overlay, and the last
\* fitBounds call was given that overlay's bounds while it was on the map.
C18_SingleValidSubmission ==
    (/\ Len(reqs) = 1
     /\ reqs[1].file = GoodFile
     /\ reqs[1].pc = "done"
     /\ Len(runs) = 1
     /\ RunIsDone(runs[1])
     /\ runs[1].pc # "failed")
    => /\ runs[1].pc = "attached"
       /\ geoTiffData = 1
       /\ mapRef
       /\ mapLayers = {1}
       /\ geoRasterLayerRef = 1
       /\ fitted = 1
       /\ ~isProcessing

\* C18 witness: the single valid submission has ended attached and the result
\* tab is shown.
C18_Witness ==
    /\ Len(reqs) = 1
    /\ reqs[1].file = GoodFile
    /\ Len(runs) = 1
    /\ runs[1].pc = "attached"
    /\ mapLayers = {1}
    /\ activeTab = "result"

\* C19: every handleFileSelected invocation eventually reaches its finally
\* block, and whenever no invocation is in flight isProcessing is false.
C19_EverySubmitSettles ==
    /\ \A i \in 1 .. MaxLiveSubmits :
          [](i \in DOMAIN reqs => <>(i \in DOMAIN reqs /\ reqs[i].pc = "done"))
    /\ [](InFlight = {} => ~isProcessing)

\* C19 witness: two invocations, one that succeeded and one that failed, have
\* both reached their finally block and the busy flag is down.
C19_Witness ==
    /\ InFlight = {}
    /\ ~isProcessing
    /\ \E i \in DOMAIN reqs : reqs[i].pc = "done" /\ reqs[i].result.success
    /\ \E i \in DOMAIN reqs : reqs[i].pc = "done" /\ ~reqs[i].result.success

\* two characters that are the same letter, whatever their case
SameLetter(a, b) ==
    \/ a = b
    \/ {a, b} \in {{"t", "T"}, {"i", "I"}, {"f", "F"}}

\* the name ends, letter for letter and whatever the case, in the suffix
EndsInIgnoringCase(name, suffix) ==
    /\ Len(name) >= Len(suffix)
    /\ \A k \in 1 .. Len(suffix) :
          SameLetter(name[Len(name) - Len(suffix) + k], suffix[k])

\* C20: when FileUploader has handled the file it was offered, it has called
\* onFileSelected exactly once, with that file, if the file's name ends in
\* ".tif" or ".tiff" whatever the case of its letters, and it has not called
\* it at all otherwise.
C20_ExtensionGate ==
    offer.handled /\ offer # NoOffer =>
        IF \/ EndsInIgnoringCase(offer.name, DotTif)
           \/ EndsInIgnoringCase(offer.name, DotTiff)
        THEN /\ Len(reqs) = 1
             /\ reqs[1].file.name = offer.name
        ELSE Len(reqs) = 0

\* C20 witness: a file whose suffix is spelled in mixed case was offered and
\* onFileSelected was called for it.
C20_Witness ==
    /\ offer.handled
    /\ offer.name = <<".", "T", "i", "F", "f">>
    /\ Len(reqs) = 1
    /\ isProcessing

C22_CrsStepPrecedesAttach ==
    [][/\ \A k \in mapLayers' \ mapLayers :
             k \in DOMAIN runs /\ runs[k].pc = "decode"
       /\ Len(runs') > Len(runs) => IsFunction(windowProj4')]_vars

\* C22 witness: initializeProj4 had installed its function, unrelated code
\* replaced it, the CRS step of the only run put the proj4 import back, and
\* that run's layer is on the map.
C22_Witness ==
    /\ initCalls >= 1
    /\ Len(runs) = 1
    /\ windowProj4 = "proj4"
    /\ runs[1].crsOk
    /\ 1 \in mapLayers

C24_OnlyValidatedSources ==
    geoTiffData # Null =>
        /\ geoTiffData \in DOMAIN reqs
        /\ reqs[geoTiffData].file.readOk
        /\ reqs[geoTiffData].file.parseOk
        /\ validateGeoTIFF(reqs[geoTiffData].file).valid
        /\ reqs[geoTiffData].result.success

\* C24 witness: a file that validateGeoTIFF rejects for its dimensions has gone
\* through handleFileSelected and geoTiffData is still null.
C24_Witness ==
    /\ Len(reqs) = 1
    /\ reqs[1].pc = "done"
    /\ reqs[1].result.error = InvalidDimsError
    /\ geoTiffData = Null
    /\ runs = <<>>

\* C28: no processGeoTiff run is stopped by the overlay stage's georeferencing
\* test: the file of every run, which validateGeoTIFF accepted, passes it.
C28_GeorefChecksAgree ==
    \A k \in DOMAIN runs :
        /\ validateGeoTIFF(reqs[runs[k].data].file).valid
        /\ ~missingGeoreferencing(reqs[runs[k].data].file)
        /\ runs[k].pc # "rejected"

\* C28 witness: a file with a tie-point tag only, which validateGeoTIFF
\* accepted, has passed the overlay stage's test and waits for its decode.
C28_Witness ==
    /\ Len(runs) = 1
    /\ runs[1].pc = "decode"
    /\ ~reqs[1].file.GeoKeyDirectory
    /\ reqs[1].file.ModelTiepoint
    /\ ~reqs[1].file.ModelPixelScale

\* C25: every GeoRaster layer on the map is the layer geoRasterLayerRef
\* refers to.
C25_HandleMatchesMap ==
    \A k \in mapLayers : geoRasterLayerRef = k

\* C26: when no handleFileSelected invocation and no processGeoTiff run is in
\* progress, every layer on the map was built from the buffer geoTiffData holds.
C26_MapAndExportAgree ==
    (InFlight = {} /\ RunsInFlight = {})
    => \A k \in mapLayers : runs[k].data = geoTiffData

\* C27: while a handleFileSelected invocation has started and has not finished
\* its finally block, isProcessing is true.
C27_BusyFlagCoversInFlight ==
    InFlight # {} => isProcessing

\* C29: while no handleFileSelected invocation is in flight the active tab is
\* 'upload' or 'result', not 'processing'.
C29_ProcessingTabNeverOutlives ==
    InFlight = {} => activeTab \in {"upload", "result"}

\* C29 witness: two invocations have finished, one of them while the other was
\* still in flight, and the upload tab is shown after a failure.
C29_Witness ==
    /\ InFlight = {}
    /\ Len(reqs) >= 2
    /\ geoTiffData # Null
    /\ activeTab = "upload"
    /\ ~reqs[Len(reqs)].result.success

\* C30: whatever window.proj4 was before, after a call of initializeProj4 it is
\* a function, its defs is the defs of the proj4 import, and it delegates to
\* the import itself, not to a function installed by an earlier call.
C30_InitializeLeavesRegistryReady ==
    [][initCalls' > initCalls =>
          /\ IsFunction(windowProj4')
          /\ HasDefs(windowProj4')
          /\ windowProj4' = "wrapper"
          /\ windowProj4' \in Proj4Hosts]_vars

\* C30 witness: initializeProj4 has been called twice, nothing has been
\* submitted, and window.proj4 is the function that delegates to the import.
C30_Witness ==
    /\ initCalls >= 2
    /\ reqs = <<>>
    /\ windowProj4 = "wrapper"

====
